---------------------------- MODULE Spec2Model ----------------------------
(***************************************************************************)
(* Papers for Obsidian: the search-and-disambiguation flow of src/main.ts  *)
(* (PapersPlugin and ImportSelectModal, lines 427-1006).                   *)
(*                                                                         *)
(* Texts are sequences of characters.  The literal pieces of the arXiv     *)
(* URL pattern ("arxiv.org/", "abs", "pdf", "html") are single characters  *)
(* of the alphabet; digits, ".", "v", " " and letters are themselves.      *)
(* JavaScript's null for a string is the empty text: the code tests these  *)
(* values for truthiness only (main.ts 472, 510, 542, 793, 795).           *)
(*                                                                         *)
(* One behaviour is one interaction: one command, its modal, its requests. *)
(* A step is one run of synchronous code between two awaits or timers.     *)
(* The host (Obsidian) is the environment: it delivers key and input       *)
(* events of an open modal (Enter may arrive whatever the input's disabled *)
(* flag, editing needs an enabled input), fires timers at any later time,  *)
(* answers requests in any order, lets the user pick a displayed           *)
(* suggestion of an open modal, and calls onCancel when the user closes    *)
(* the modal without choosing (not on this.close() nor after a pick).      *)
(***************************************************************************)
EXTENDS Integers, Sequences, FiniteSets, TLC

\* ------------------------------------------------------------------ bounds
MaxRetriesBound == 3
MaxSearches == 2

\* --------------------------------------------------------- program constants
DefaultMaxRetries == 3
BackoffBaseMs == 1000
ThresholdNum == 3
ThresholdDen == 10

\* ---------------------------------------------------------------- helpers
Range(s) == {s[i] : i \in 1..Len(s)}

RECURSIVE Pow2(_)
Pow2(n) == IF n <= 0 THEN 1 ELSE 2 * Pow2(n - 1)

RECURSIVE Flatten(_)
Flatten(ss) == IF ss = <<>> THEN <<>> ELSE Head(ss) \o Flatten(Tail(ss))

Digits == {"0", "1", "2", "3", "4", "5", "6", "7", "8", "9"}
Whitespace == {" ", "\t"}
PathSegments == {"abs", "pdf", "html"}

IsDigits(t, from, to) == \A k \in from..to : t[k] \in Digits

\* String.prototype.trim
RECURSIVE TrimLeft(_)
TrimLeft(t) == IF t # <<>> /\ Head(t) \in Whitespace THEN TrimLeft(Tail(t)) ELSE t

RECURSIVE TrimRight(_)
TrimRight(t) ==
    IF t # <<>> /\ t[Len(t)] \in Whitespace THEN TrimRight(SubSeq(t, 1, Len(t) - 1)) ELSE t

Trim(t) == TrimRight(TrimLeft(t))

\* ------------------------------------------------------------ sanitizeTitle
\* toLowerCase, then [-:,.] -> ' ' on one character; "arxiv.org/" holds a "."
ToLowerCase(c) ==
    IF c = "A" THEN "a" ELSE IF c = "B" THEN "b" ELSE IF c = "X" THEN "x" ELSE c

SanitizeChar(c) ==
    IF c \in {"-", ":", ",", "."} THEN <<" ">>
    ELSE IF c = "arxiv.org/" THEN <<"arxiv", " ", "org/">>
    ELSE <<ToLowerCase(c)>>

\* replace(/\s+/g, ' ')
RECURSIVE CollapseWhitespace(_)
CollapseWhitespace(t) ==
    IF t = <<>> THEN <<>>
    ELSE IF Head(t) \in Whitespace
         THEN <<" ">> \o CollapseWhitespace(TrimLeft(t))
         ELSE <<Head(t)>> \o CollapseWhitespace(Tail(t))

\* trims before it replaces
sanitizeTitleTrimFirst(title) ==
    CollapseWhitespace(Flatten([i \in 1..Len(Trim(title)) |-> SanitizeChar(Trim(title)[i])]))

sanitizeTitle(title) ==
    Trim(CollapseWhitespace(Flatten([i \in 1..Len(title) |-> SanitizeChar(title[i])])))

\* ----------------------------------------------------------- extractArxivId
\* /arxiv\.org\/(abs|pdf|html)\/(\d{4}\.\d{4,5})(v\d+)?/ matched at position i
MatchesAt(t, i) ==
    /\ i + 11 <= Len(t)
    /\ t[i] = "arxiv.org/"
    /\ t[i + 1] \in PathSegments
    /\ t[i + 2] = "/"
    /\ IsDigits(t, i + 3, i + 6)
    /\ t[i + 7] = "."
    /\ IsDigits(t, i + 8, i + 11)

\* group 2 of the match at i: \d{4,5} is greedy
IdAt(t, i) ==
    IF i + 12 <= Len(t) /\ t[i + 12] \in Digits
    THEN SubSeq(t, i + 3, i + 12)
    ELSE SubSeq(t, i + 3, i + 11)

MatchPositions(t) == {i \in 1..Len(t) : MatchesAt(t, i)}

\* the last occurrence instead of the first
LastMatch(t) == CHOOSE i \in MatchPositions(t) : \A j \in MatchPositions(t) : i >= j

FirstMatch(t) == CHOOSE i \in MatchPositions(t) : \A j \in MatchPositions(t) : i <= j

extractArxivId(url) == IF MatchPositions(url) = {} THEN <<>> ELSE IdAt(url, FirstMatch(url))

\* ------------------------------------------------- compareTwoStrings (Dice)
\* string-similarity-js with substringLength = 2; 0 when either text is shorter
\* than 2.  The score is the fraction num/den, kept exact as <<num, den>>.
\* Both arguments are outputs of sanitizeTitle, hence already lower case.
Min(a, b) == IF a <= b THEN a ELSE b

BigramsOf(s) == [i \in 1..(Len(s) - 1) |-> <<s[i], s[i + 1]>>]

Count(seq, g) == Cardinality({i \in 1..Len(seq) : seq[i] = g})

RECURSIVE SumOver(_, _, _)
SumOver(S, b1, b2) ==
    IF S = {} THEN 0
    ELSE LET g == CHOOSE x \in S : TRUE
         IN Min(Count(b1, g), Count(b2, g)) + SumOver(S \ {g}, b1, b2)

compareTwoStrings(str1, str2) ==
    IF Len(str1) < 2 \/ Len(str2) < 2 THEN <<0, 1>>
    ELSE LET b1 == BigramsOf(str1)
             b2 == BigramsOf(str2)
         IN <<2 * SumOver(Range(b1), b1, b2), Len(str1) + Len(str2) - 2>>

\* a > b for fractions with positive denominators
FracGreater(a, b) == a[1] * b[2] > b[1] * a[2]

\* ------------------------------------------------------------ getSuggestions
Similarity(choice, sanitized) == compareTwoStrings(sanitizeTitle(choice.title), sanitized)

\* sim >= 0.3
AboveOrAtThreshold(choice, sanitized) ==
    ~FracGreater(<<ThresholdNum, ThresholdDen>>, Similarity(choice, sanitized))

\* sim > 0.3
AboveThreshold(choice, sanitized) ==
    FracGreater(Similarity(choice, sanitized), <<ThresholdNum, ThresholdDen>>)

RECURSIVE FilterChoices(_, _)
FilterChoices(choices, sanitized) ==
    IF choices = <<>> THEN <<>>
    ELSE IF AboveThreshold(Head(choices), sanitized)
         THEN <<Head(choices)>> \o FilterChoices(Tail(choices), sanitized)
         ELSE FilterChoices(Tail(choices), sanitized)

\* an insertion that puts x before the elements of equal score
RECURSIVE InsertSortedTiesFirst(_, _, _)
InsertSortedTiesFirst(sorted, x, sanitized) ==
    IF sorted = <<>> THEN <<x>>
    ELSE IF ~FracGreater(Similarity(Head(sorted), sanitized), Similarity(x, sanitized))
         THEN <<x>> \o sorted
         ELSE <<Head(sorted)>> \o InsertSortedTiesFirst(Tail(sorted), x, sanitized)

\* Array.prototype.sort with comparator simB - simA: stable, descending
RECURSIVE InsertSorted(_, _, _)
InsertSorted(sorted, x, sanitized) ==
    IF sorted = <<>> THEN <<x>>
    ELSE IF FracGreater(Similarity(x, sanitized), Similarity(Head(sorted), sanitized))
         THEN <<x>> \o sorted
         ELSE <<Head(sorted)>> \o InsertSorted(Tail(sorted), x, sanitized)

RECURSIVE SortBySimilarity(_, _)
SortBySimilarity(list, sanitized) ==
    IF list = <<>> THEN <<>>
    ELSE InsertSorted(SortBySimilarity(SubSeq(list, 1, Len(list) - 1), sanitized),
                      list[Len(list)], sanitized)

\* the guard of line 755: the ranker is reached only past it
RankerReached(m) == ~m.loading /\ m.hasSearched /\ m.choices # <<>>

getSuggestions(m, query) ==
    IF ~RankerReached(m) THEN <<>>
    ELSE SortBySimilarity(FilterChoices(m.choices, sanitizeTitle(query)), sanitizeTitle(query))

\* ------------------------------------------------------------------- data
\* Texts the user can put on the clipboard or type into the modal.
IdUrl == <<"arxiv.org/", "abs", "/", "1", "7", "0", "6", ".", "0", "3", "7", "6", "2">>
EmbeddedUrl ==
    <<" ", "a", " ", "arxiv.org/", "pdf", "/", "1", "7", "0", "6", ".", "0", "3", "7", "6", "2",
      "v", "3", " ">>
HtmlUrl ==
    <<"https://", "arxiv.org/", "html", "/", "2", "0", "0", "1", ".", "0", "0", "0", "0", "1",
      "v", "1", "2">>
Blank == <<" ">>
TitleQuery == <<"A", "b", "-", "c", "d">>
OtherQuery == <<"x", "y", "z">>
UserTexts == {<<>>, Blank, TitleQuery, OtherQuery, IdUrl, EmbeddedUrl, HtmlUrl}

\* identifiers the texts are written with
Id1706 == <<"1", "7", "0", "6", ".", "0", "3", "7", "6", "2">>
Id2001 == <<"2", "0", "0", "1", ".", "0", "0", "0", "0", "1">>

CanonicalBase == <<"https://", "arxiv.org/", "abs", "/">>
MakeUrl(id) == CanonicalBase \o id

Paper(title, id) ==
    [title |-> title, authors |-> <<<<"n">>>>, year |-> 2017, url |-> MakeUrl(id)]

PaperAbcd == Paper(<<"a", "b", " ", "c", "d">>, <<"1", "7", "0", "6", ".", "0", "3", "7", "6", "2">>)
PaperAbxy == Paper(<<"a", "b", " ", "x", "y">>, <<"2", "0", "0", "1", ".", "0", "0", "0", "0", "1">>)
PaperXyz == Paper(<<"X", "y", "z">>, <<"2", "0", "0", "2", ".", "0", "0", "0", "0", "2">>)

\* ------------------------------------------------------ response entries
\* An <entry> of the Atom document: textContent of its title, author names,
\* published and id elements; a missing element is the empty text.
Entry(title, published, id) ==
    [title |-> title, authors |-> <<<<"n">>>>, published |-> published, id |-> id]

IsoRest == "-06-12T17:57:34Z"
Published2017 == <<"2", "0", "1", "7", IsoRest>>
IdPrefix == <<"http://", "arxiv.org/", "abs", "/">>

EntryAbcd ==
    Entry(<<"a", "b", " ", "c", "d">>, Published2017,
          IdPrefix \o <<"1", "7", "0", "6", ".", "0", "3", "7", "6", "2", "v", "7">>)
EntryAbxy ==
    Entry(<<"a", "b", " ", "x", "y">>, Published2017,
          IdPrefix \o <<"2", "0", "0", "1", ".", "0", "0", "0", "0", "1", "v", "1">>)
EntryXyz ==
    Entry(<<"X", "y", "z">>, Published2017,
          IdPrefix \o <<"2", "0", "0", "2", ".", "0", "0", "0", "0", "2", "v", "2">>)
\* an identifier of the old scheme, a title broken over lines
EntryOldId ==
    Entry(<<" ", "a", "b", " ", " ", "c", "d", " ">>, Published2017,
          IdPrefix \o <<"hep-th/", "9", "9", "0", "1", "0", "0", "1", "v", "1">>)
\* no published element
EntryNoDate ==
    Entry(<<"x", "y">>, <<>>,
          IdPrefix \o <<"2", "0", "0", "3", ".", "0", "0", "0", "0", "3", "v", "1">>)
\* a published element that is no date
EntryBadDate ==
    Entry(<<"a", "b", " ", "c", "d">>, <<"n", "/", "a">>,
          IdPrefix \o <<"1", "7", "0", "6", ".", "0", "3", "7", "6", "2", "v", "7">>)

\* The body of a successful request: a well-formed feed with its entries, or
\* a text that is no such document.
Feed(entries) == [wellFormed |-> TRUE, entries |-> entries]
Malformed == [wellFormed |-> FALSE, entries |-> <<>>]

\* max_results of the query url (line 850)
PageSize == 10

\* a feed with one entry more than was asked for
OverfullFeed == Feed([k \in 1..(PageSize + 1) |-> EntryXyz])

SearchResponses ==
    { Feed(<<>>), Feed(<<EntryXyz>>), Feed(<<EntryAbxy, EntryXyz, EntryAbcd>>),
      Feed(<<EntryOldId, EntryNoDate>>), Malformed, OverfullFeed }

LookupResponses ==
    { Feed(<<>>), Feed(<<EntryAbcd>>), Feed(<<EntryAbxy>>), Feed(<<EntryBadDate>>), Malformed }

\* ------------------------------------------------------------ entry parsing
\* Number.NaN, the year of an Invalid Date: a number that is no year
NaN == -1

DigitValue(c) ==
    CASE c = "0" -> 0 [] c = "1" -> 1 [] c = "2" -> 2 [] c = "3" -> 3 [] c = "4" -> 4
      [] c = "5" -> 5 [] c = "6" -> 6 [] c = "7" -> 7 [] c = "8" -> 8 [] c = "9" -> 9

RECURSIVE Decimal(_)
Decimal(t) == IF t = <<>> THEN 0 ELSE 10 * Decimal(SubSeq(t, 1, Len(t) - 1)) + DigitValue(t[Len(t)])

\* new Date(published): a timestamp yyyy-mm-ddThh:mm:ssZ is a date
IsDate(published) ==
    Len(published) = 5 /\ IsDigits(published, 1, 4) /\ published[5] = IsoRest

\* new Date(published).getFullYear()
ParseYear(published) ==
    IF IsDate(published) THEN Decimal(SubSeq(published, 1, 4)) ELSE NaN

\* textContent?.trim().replace(/\s+/g, " ") || ""
ParseTitle(title) == CollapseWhitespace(Trim(title))

\* /\d{4}\.\d{4,5}/ matched at position i of the id text
ShapeAt(t, i) ==
    /\ i + 8 <= Len(t)
    /\ IsDigits(t, i, i + 3)
    /\ t[i + 4] = "."
    /\ IsDigits(t, i + 5, i + 8)

ShapePositions(t) == {i \in 1..Len(t) : ShapeAt(t, i)}

FirstShape(t) == CHOOSE i \in ShapePositions(t) : \A j \in ShapePositions(t) : i <= j

\* textContent?.match(/\d{4}\.\d{4,5}/)?.[0] || ""
EntryId(id) ==
    IF ShapePositions(id) = {} THEN <<>>
    ELSE LET i == FirstShape(id)
         IN IF i + 9 <= Len(id) /\ id[i + 9] \in Digits
            THEN SubSeq(id, i, i + 9)
            ELSE SubSeq(id, i, i + 8)

\* the record searchArxivByTitle makes of an entry (lines 861-869)
ParseSearchEntry(entry) ==
    [title |-> ParseTitle(entry.title), authors |-> entry.authors,
     year |-> ParseYear(entry.published), url |-> MakeUrl(EntryId(entry.id))]

\* DOMParser.parseFromString, querySelectorAll("entry"): a text that is no
\* XML document parses to an error document, which holds no entry
DocumentEntries(response) == IF response.wellFormed THEN response.entries ELSE <<>>

ParseSearchResponse(response) ==
    [k \in 1..Len(DocumentEntries(response)) |-> ParseSearchEntry(DocumentEntries(response)[k])]

\* What a title search can answer (already parsed into records, server order).
SearchResults == {ParseSearchResponse(response) : response \in SearchResponses}
\* Titles a lookup by identifier can answer with.
LookupTitles ==
    {ParseTitle(response.entries[1].title) : response \in {r \in LookupResponses : r.entries # <<>>}}

\* Errors an attempt can fail with: the message as fragments, and whether the
\* failure was at transport level.
ErrorKinds ==
    { [msg |-> <<"net::", "ERR_CONNECTION_RESET">>, transport |-> TRUE],
      [msg |-> <<"net::", "ERR_NETWORK", "_CHANGED">>, transport |-> TRUE],
      [msg |-> <<"net::", "ERR_NAME_NOT_RESOLVED">>, transport |-> TRUE],
      [msg |-> <<"Request", " failed, status 500">>, transport |-> FALSE],
      [msg |-> <<"Cannot read properties of undefined">>, transport |-> FALSE],
      [msg |-> <<"Failed to parse the response to the ", "request">>, transport |-> FALSE] }

Includes(msg, needle) == \E i \in 1..Len(msg) : msg[i] = needle

\* ------------------------------------------------------------- status texts
Status(text) == [text |-> text, retry |-> 0, of |-> 0]
RetryStatus(attempt, maxRetries) ==
    [text |-> "Searching arXiv... (retry)", retry |-> attempt, of |-> maxRetries]

FrameworkDefaultText == Status("<SuggestModal default>")
SearchingText == Status("Searching arXiv...")
NoResultsText == Status("No results found")
NoMatchingText == Status("No matching results")
SearchFailedText == Status("Search failed. Please try again.")

\* ------------------------------------------------------------------- state
VARIABLES
    cmd,            \* the command that started the interaction
    clipboard,      \* clipboardText captured by createNoteFromClipboard
    maxRetries,     \* the maxRetries argument of searchArxivByTitle
    modal,          \* the ImportSelectModal
    searches,       \* the calls of searchArxivByTitle, in order of start
    lookupQ,        \* identifiers of fetchArxivMetadata requests in flight
    lookups,        \* number of lookup-by-identifier requests issued
    notices,        \* Notice texts shown so far
    loadingNotices, \* "Fetching paper metadata" notices currently visible
    noteCalls,      \* arguments of the createNoteFromMetadata calls
    choiceLog,      \* values delivered to the onChoice callback
    idInput,        \* history: a committed input held an identifier
    rankerRan,      \* history: getSuggestions got past its guard
    chosen,         \* history: the suggestion the user picked, if any
    fetched,        \* history: the record fetchArxivMetadata returned, if any
    cancelled,      \* history: onCancel ran
    lateResponse,   \* history: a search answer arrived after onCancel
    lookupOutcome,  \* history: how the lookup request ended, if it has
    pure,           \* the function under study, its argument and results
    enters,         \* history: what the modal showed at the Enter keyups so far
    note,           \* the run of createNoteFromMetadata
    vault,          \* the files createNoteFromMetadata and downloadPdf touch
    dialog,         \* the ConfirmOverwriteModal and the promise of confirmOverwrite
    settings        \* the plugin settings

cbVars == <<lookupQ, lookups, notices, loadingNotices, noteCalls, choiceLog>>
histVars == <<chosen, fetched, cancelled, lateResponse, lookupOutcome>>
vars == <<cmd, clipboard, maxRetries, modal, searches, lookupQ, lookups, notices,
          loadingNotices, noteCalls, choiceLog, idInput, rankerRan, chosen, fetched,
          cancelled, lateResponse, lookupOutcome, pure, enters, note, vault, dialog, settings>>
noteVars == <<note, vault, dialog, settings>>

\* createNoteFromMetadata not running
NoteIdle ==
    [pc |-> "idle", metadata |-> <<>>, fileExists |-> FALSE, pdfFilename |-> <<>>,
     pdfFailed |-> "no", downloadPdfCalls |-> 0, notices |-> {}, written |-> <<>>]

\* no file of interest: the note path is free, no PDF folder is set
VaultEmpty ==
    [noteOnDisk |-> FALSE, noteIsTFile |-> FALSE, noteContent |-> <<>>,
     pdfFolderExists |-> FALSE, pdfContent |-> "none", pdfAtStart |-> "none",
     pdfRequests |-> 0]

\* no ConfirmOverwriteModal
DialogNone == [state |-> "none", resolved |-> 0, decision |-> FALSE]

\* DEFAULT_SETTINGS: pdfFolder "", the template holds {{PDF}}
DefaultSettings == [pdfFolder |-> <<>>, templateHasPdf |-> TRUE]

\* no function under study
PureIdle ==
    [fn |-> "none", text |-> <<>>, known |-> <<>>, choices |-> <<>>, outs |-> <<>>,
     ranked |-> <<>>, done |-> FALSE]

NewModal ==
    [state |-> "none", openTimer |-> FALSE, keyupListener |-> FALSE,
     inputValue |-> <<>>, inputDisabled |-> FALSE, currentInput |-> <<>>,
     loading |-> FALSE, hasSearched |-> FALSE, choices |-> <<>>,
     emptyStateText |-> FrameworkDefaultText, resultContainerShown |-> TRUE,
     refreshPending |-> FALSE, suggestions |-> <<>>]

Init ==
    /\ cmd = "none"
    /\ clipboard = <<>>
    /\ maxRetries \in 1..MaxRetriesBound
    /\ modal = NewModal
    /\ searches = <<>>
    /\ lookupQ = <<>>
    /\ lookups = 0
    /\ notices = {}
    /\ loadingNotices = 0
    /\ noteCalls = <<>>
    /\ choiceLog = <<>>
    /\ idInput = FALSE
    /\ rankerRan = FALSE
    /\ chosen = <<>>
    /\ fetched = <<>>
    /\ cancelled = FALSE
    /\ lateResponse = FALSE
    /\ lookupOutcome = <<>>
    /\ pure = PureIdle
    /\ enters = {}
    /\ note = NoteIdle
    /\ vault = VaultEmpty
    /\ dialog = DialogNone
    /\ settings = DefaultSettings

\* ------------------------------------------------- ImportSelectModal parts
\* manualRefresh: a 0 ms timer that dispatches an input event
manualRefresh(m) == [m EXCEPT !.refreshPending = TRUE]

\* a ranker that sorts this.choices itself
ChoicesSortedInPlace(m, query) ==
    IF ~RankerReached(m) THEN m.choices ELSE SortBySimilarity(m.choices, sanitizeTitle(query))

\* this.choices after getSuggestions: filter makes a new array and sort orders
\* that one (lines 760-769)
ChoicesAfterSuggestions(m, query) == m.choices

\* The input event: SuggestModal asks getSuggestions(inputEl.value) and renders.
InputEvent(m) ==
    [m EXCEPT !.currentInput = m.inputValue,
              !.choices = ChoicesAfterSuggestions(m, m.inputValue),
              !.suggestions = getSuggestions(m, m.inputValue)]

\* setLoading that leaves the input control alone
setLoadingKeepsInput(m, isLoading) ==
    LET m1 == [m EXCEPT !.loading = isLoading]
        m2 == IF isLoading
              THEN [m1 EXCEPT !.emptyStateText = SearchingText,
                              !.hasSearched = TRUE,
                              !.resultContainerShown = TRUE]
              ELSE m1
    IN [m2 EXCEPT !.refreshPending = TRUE]

\* setLoading that does not mark the modal as searched
setLoadingNotSearched(m, isLoading) ==
    LET m1 == [m EXCEPT !.loading = isLoading, !.inputDisabled = isLoading]
        m2 == IF isLoading
              THEN [m1 EXCEPT !.emptyStateText = SearchingText,
                              !.resultContainerShown = TRUE]
              ELSE m1
    IN manualRefresh(m2)

setLoading(m, isLoading) ==
    LET m1 == [m EXCEPT !.loading = isLoading, !.inputDisabled = isLoading]
        m2 == IF isLoading
              THEN [m1 EXCEPT !.emptyStateText = SearchingText,
                              !.hasSearched = TRUE,
                              !.resultContainerShown = TRUE]
              ELSE m1
    IN manualRefresh(m2)

\* one text for every empty list
EmptyStateTextAlways(results) == NoResultsText

\* line 840
EmptyStateTextFor(results) == IF results = <<>> THEN NoResultsText ELSE NoMatchingText

setSearchResults(m, results) ==
    manualRefresh(
        [m EXCEPT !.loading = FALSE,
                  !.hasSearched = TRUE,
                  !.choices = results,
                  !.resultContainerShown = TRUE,
                  !.emptyStateText = EmptyStateTextFor(results),
                  !.inputDisabled = FALSE])

\* a catch block that only clears the results
SearchFailedKeepsText(m) == setSearchResults(m, <<>>)

\* the catch block of performSearch
SearchFailed(m) ==
    manualRefresh(
        [setSearchResults(m, <<>>) EXCEPT !.emptyStateText = SearchFailedText,
                                          !.loading = FALSE,
                                          !.hasSearched = TRUE,
                                          !.inputDisabled = FALSE])

\* --------------------------------------------------------- searchArxivByTitle
isNetworkError(errorMessage) ==
    \/ Includes(errorMessage, "ERR_CONNECTION_RESET")
    \/ Includes(errorMessage, "ERR_NETWORK")
    \/ Includes(errorMessage, "request")

\* gives up one attempt early
ShouldThrowEarly(errorMessage, attempt, max) ==
    ~isNetworkError(errorMessage) \/ attempt >= max - 1

\* line 879: if (!isNetworkError || attempt === maxRetries) throw error
ShouldThrow(errorMessage, attempt, max) ==
    ~isNetworkError(errorMessage) \/ attempt = max

\* doubles once too often
BackoffDelayDoubled(attempt) == Pow2(attempt) * BackoffBaseMs

\* line 883
BackoffDelay(attempt) == Pow2(attempt - 1) * BackoffBaseMs

NewSearch(input, max) ==
    [pc |-> "request", query |-> sanitizeTitle(input), attempt |-> 1, maxRetries |-> max,
     requests |-> 1, delays |-> <<>>, lastError |-> <<>>, thrown |-> <<>>,
     response |-> <<>>, results |-> <<>>]

InFlight(s) == s.pc \in {"request", "delay"}

\* ------------------------------------------------------------- PapersPlugin
NullChoice == [isNull |-> TRUE, isArxivUrl |-> FALSE, input |-> <<>>, paper |-> <<>>]
ArxivChoice(input) == [isNull |-> FALSE, isArxivUrl |-> TRUE, input |-> input, paper |-> <<>>]
PaperChoice(item) == [isNull |-> FALSE, isArxivUrl |-> FALSE, input |-> <<>>, paper |-> <<item>>]

\* createNoteFromMetadata is entered with this record
createNoteFromMetadata(metadata) == noteCalls' = Append(noteCalls, metadata)

\* processArxivUrl up to its await
processArxivUrl(input) ==
    LET arxivId == extractArxivId(input)
    IN IF arxivId = <<>>
       THEN /\ notices' = notices \cup {"Invalid arXiv URL."}
            /\ UNCHANGED <<lookupQ, lookups, loadingNotices, noteCalls>>
       ELSE /\ notices' = notices \cup {"Fetching paper metadata from arXiv..."}
            /\ loadingNotices' = loadingNotices + 1
            /\ lookupQ' = Append(lookupQ, arxivId)
            /\ lookups' = lookups + 1
            /\ UNCHANGED noteCalls

\* a callback without the null check
CallbackRouteNoNullCheck(choice) ==
    IF choice.isArxivUrl THEN "processArxivUrl" ELSE "createNoteFromMetadata"

\* the callback given to ImportSelectModal (lines 497-504 and 547-555)
CallbackRoute(choice) ==
    IF choice.isNull THEN "return"
    ELSE IF choice.isArxivUrl THEN "processArxivUrl"
    ELSE "createNoteFromMetadata"

onChoice(choice) ==
    /\ choiceLog' = Append(choiceLog, choice)
    /\ CASE CallbackRoute(choice) = "return" ->
              UNCHANGED <<lookupQ, lookups, notices, loadingNotices, noteCalls>>
         [] CallbackRoute(choice) = "processArxivUrl" ->
              processArxivUrl(choice.input)
         [] CallbackRoute(choice) = "createNoteFromMetadata" ->
              /\ createNoteFromMetadata(IF choice.paper = <<>> THEN choice ELSE choice.paper[1])
              /\ UNCHANGED <<lookupQ, lookups, notices, loadingNotices>>

\* -------------------------------------------------------------- performSearch
PerformSearchInput(m) ==
    IF Trim(m.inputValue) # <<>> THEN Trim(m.inputValue) ELSE Trim(m.currentInput)

\* a route that takes the identifier only at the start of the input
PerformSearchRouteAnchored(input) ==
    IF input = <<>> THEN "return"
    ELSE IF MatchesAt(input, 1) THEN "arxiv"
    ELSE "search"

PerformSearchRoute(input) ==
    IF input = <<>> THEN "return"
    ELSE IF extractArxivId(input) # <<>> THEN "arxiv"
    ELSE "search"

\* performSearch on modal state m, up to its await
performSearch(m) ==
    LET input == PerformSearchInput(m)
    IN /\ idInput' = (idInput \/ extractArxivId(input) # <<>>)
       /\ CASE PerformSearchRoute(input) = "return" ->
                 /\ modal' = m
                 /\ UNCHANGED <<searches, cbVars>>
            [] PerformSearchRoute(input) = "arxiv" ->
                 /\ modal' = [m EXCEPT !.state = "closed"]
                 /\ onChoice(ArxivChoice(input))
                 /\ UNCHANGED searches
            [] PerformSearchRoute(input) = "search" ->
                 /\ Len(searches) < MaxSearches
                 /\ modal' = setLoading(m, TRUE)
                 /\ searches' = Append(searches, NewSearch(input, maxRetries))
                 /\ UNCHANGED cbVars

\* what the modal shows when an Enter keyup arrives
EnterPhase(m) ==
    IF m.loading THEN "loading"
    ELSE IF ~m.hasSearched THEN "fresh"
    ELSE m.emptyStateText.text

\* a listener that lets Enter through whenever no search is running
KeyupGuardNotLoading(m) == ~m.loading

\* a listener that looks at the key only
KeyupGuardKeyOnly(m) == TRUE

\* the keyup listener's condition besides e.key === 'Enter' (line 741)
KeyupGuard(m) == ~m.hasSearched /\ ~m.loading

\* hands over the first stored candidate
onChooseSuggestionFirst(m, item) == m.choices[1]

\* onChooseSuggestion hands its item to onChoice
onChooseSuggestionItem(m, item) == item

\* ---------------------------------------------------------------- commands
ShowImportModal ==
    /\ cmd = "none"
    /\ cmd' = "import"
    /\ modal' = [NewModal EXCEPT !.state = "open",
                                 !.resultContainerShown = FALSE,
                                 !.openTimer = TRUE]
    /\ UNCHANGED <<clipboard, maxRetries, pure, noteVars, enters, searches, cbVars, idInput, rankerRan, histVars>>

ClipboardRoute(clipboardText) ==
    IF Trim(clipboardText) = <<>> THEN "empty"
    ELSE IF extractArxivId(clipboardText) # <<>> THEN "arxiv"
    ELSE "modal"

CreateNoteFromClipboard(clipboardText) ==
    /\ cmd = "none"
    /\ cmd' = "clipboard"
    /\ clipboard' = clipboardText
    /\ idInput' = (extractArxivId(clipboardText) # <<>>)
    /\ CASE ClipboardRoute(clipboardText) = "empty" ->
              /\ notices' = notices \cup {"Clipboard is empty."}
              /\ UNCHANGED <<modal, lookupQ, lookups, loadingNotices, noteCalls, choiceLog>>
         [] ClipboardRoute(clipboardText) = "arxiv" ->
              /\ processArxivUrl(Trim(clipboardText))
              /\ UNCHANGED <<modal, choiceLog>>
         [] ClipboardRoute(clipboardText) = "modal" ->
              /\ modal' = [NewModal EXCEPT !.state = "open",
                                           !.currentInput = Trim(clipboardText),
                                           !.openTimer = TRUE]
              /\ UNCHANGED cbVars
    /\ UNCHANGED <<maxRetries, pure, noteVars, enters, searches, rankerRan, histVars>>

\* ------------------------------------------------------------ timers, events
\* the 10 ms timer of ImportSelectModal.onOpen: focus and add the keyup listener
OnOpenTimer ==
    /\ cmd = "import"
    /\ modal.openTimer
    /\ modal' = [modal EXCEPT !.openTimer = FALSE, !.keyupListener = TRUE]
    /\ UNCHANGED <<cmd, clipboard, maxRetries, pure, noteVars, enters, searches, cbVars, idInput, rankerRan, histVars>>

\* the 10 ms timer of the onOpen that createNoteFromClipboard installs
AutoSearchTimer ==
    /\ cmd = "clipboard"
    /\ modal.openTimer
    /\ performSearch([modal EXCEPT !.openTimer = FALSE, !.inputValue = Trim(clipboard)])
    /\ UNCHANGED <<cmd, clipboard, maxRetries, pure, noteVars, enters, rankerRan, histVars>>

\* the user edits the input: an input event follows
TypeInput(text) ==
    /\ modal.state = "open"
    /\ ~modal.inputDisabled
    /\ text # modal.inputValue
    /\ modal' = InputEvent([modal EXCEPT !.inputValue = text])
    /\ rankerRan' = (rankerRan \/ RankerReached(modal))
    /\ UNCHANGED <<cmd, clipboard, maxRetries, pure, noteVars, enters, searches, cbVars, idInput, histVars>>

\* an Enter keyup reaches the listener
KeyupEnter ==
    /\ modal.state = "open"
    /\ modal.keyupListener
    /\ enters' = enters \cup {EnterPhase(modal)}
    /\ IF KeyupGuard(modal)
       THEN /\ performSearch(modal)
            /\ UNCHANGED <<cmd, clipboard, maxRetries, pure, noteVars, rankerRan, histVars>>
       ELSE UNCHANGED <<cmd, clipboard, maxRetries, pure, noteVars, modal, searches, cbVars,
                        idInput, rankerRan, histVars>>

ManualRefreshTimer ==
    /\ modal.refreshPending
    /\ modal' = InputEvent([modal EXCEPT !.refreshPending = FALSE])
    /\ rankerRan' = (rankerRan \/ RankerReached(modal))
    /\ UNCHANGED <<cmd, clipboard, maxRetries, pure, noteVars, enters, searches, cbVars, idInput, histVars>>

\* the user picks the k-th displayed suggestion: SuggestModal closes, then
\* calls onChooseSuggestion
ChooseSuggestion(k) ==
    /\ modal.state = "open"
    /\ k \in 1..Len(modal.suggestions)
    /\ modal' = [modal EXCEPT !.state = "closed"]
    /\ chosen' = <<modal.suggestions[k]>>
    /\ onChoice(PaperChoice(onChooseSuggestionItem(modal, modal.suggestions[k])))
    /\ UNCHANGED <<cmd, clipboard, maxRetries, pure, noteVars, enters, searches, idInput, rankerRan, fetched,
                   cancelled, lateResponse, lookupOutcome>>

\* the user closes the modal without choosing: onCancel
OnCancel ==
    /\ modal.state = "open"
    /\ modal' = [modal EXCEPT !.state = "closed"]
    /\ cancelled' = TRUE
    /\ onChoice(NullChoice)
    /\ UNCHANGED <<cmd, clipboard, maxRetries, pure, noteVars, enters, searches, idInput, rankerRan, chosen, fetched,
                   lateResponse, lookupOutcome>>

\* ------------------------------------------------- searchArxivByTitle steps
\* requestUrl answers attempt `attempt` of search i; the entries are parsed,
\* searchArxivByTitle returns and performSearch continues (line 805)
SearchResponseOk(i, response) ==
    /\ searches[i].pc = "request"
    /\ searches' = [searches EXCEPT ![i].pc = "returned",
                                    ![i].response = <<response>>,
                                    ![i].results = ParseSearchResponse(response)]
    /\ modal' = setSearchResults(modal, ParseSearchResponse(response))
    /\ lateResponse' = (lateResponse \/ cancelled)
    /\ UNCHANGED <<cmd, clipboard, maxRetries, pure, noteVars, enters, cbVars, idInput, rankerRan, chosen, fetched,
                   cancelled, lookupOutcome>>

\* the attempt of search i fails with an error of kind `kind` (lines 871-884);
\* a thrown error lands in the catch block of performSearch (lines 806-813)
SearchResponseError(i, kind) ==
    LET s == searches[i]
        error == [msg |-> kind.msg, transport |-> kind.transport, req |-> s.requests]
    IN /\ s.pc = "request"
       /\ IF ShouldThrow(error.msg, s.attempt, s.maxRetries)
          THEN /\ searches' = [searches EXCEPT ![i].pc = "thrown",
                                              ![i].lastError = <<error>>,
                                              ![i].thrown = <<error>>]
               /\ modal' = SearchFailed(modal)
          ELSE /\ searches' = [searches EXCEPT ![i].pc = "delay",
                                              ![i].lastError = <<error>>,
                                              ![i].delays = Append(@, BackoffDelay(s.attempt))]
               /\ UNCHANGED modal
       /\ UNCHANGED <<cmd, clipboard, maxRetries, pure, noteVars, enters, cbVars, idInput, rankerRan, histVars>>

\* the backoff timer of search i fires (lines 886-887), the loop goes on with
\* attempt + 1, or ends and line 890 returns []
BackoffElapsed(i) ==
    LET s == searches[i]
        m == manualRefresh([modal EXCEPT
                 !.emptyStateText = RetryStatus(s.attempt + 1, s.maxRetries)])
    IN /\ s.pc = "delay"
       /\ IF s.attempt + 1 <= s.maxRetries
          THEN /\ searches' = [searches EXCEPT ![i].pc = "request",
                                              ![i].attempt = @ + 1,
                                              ![i].requests = @ + 1]
               /\ modal' = m
          ELSE /\ searches' = [searches EXCEPT ![i].pc = "returned", ![i].attempt = @ + 1]
               /\ modal' = setSearchResults(m, <<>>)
       /\ UNCHANGED <<cmd, clipboard, maxRetries, pure, noteVars, enters, cbVars, idInput, rankerRan, histVars>>

\* ------------------------------------------------------- fetchArxivMetadata
\* how requestUrl ends: it throws (no connection, an error status), or it
\* resolves with a response body
LookupOutcomes ==
    {[kind |-> "error", response |-> Feed(<<>>)]}
        \cup {[kind |-> "response", response |-> r] : r \in LookupResponses}

\* the url of the record is made of the identifier in the response
LookupUrlFromEntry(arxivId, entry) == MakeUrl(EntryId(entry.id))

\* line 674: url: `https://arxiv.org/abs/${arxivId}`
LookupUrl(arxivId, entry) == MakeUrl(arxivId)

\* lines 665-674: the record made of the first entry
ParseLookupEntry(arxivId, entry) ==
    [title |-> ParseTitle(entry.title), authors |-> entry.authors,
     year |-> ParseYear(entry.published), url |-> LookupUrl(arxivId, entry)]

\* the catch block (lines 675-678) turns every error into null: no error
\* leaves fetchArxivMetadata
fetchArxivMetadataThrows(outcome) == FALSE

\* null on a failed request and on a response without entry, else the record
fetchArxivMetadata(arxivId, outcome) ==
    IF outcome.kind = "error" THEN <<>>
    ELSE IF DocumentEntries(outcome.response) = <<>> THEN <<>>
    ELSE <<ParseLookupEntry(arxivId, DocumentEntries(outcome.response)[1])>>

RemoveAt(q, i) == SubSeq(q, 1, i - 1) \o SubSeq(q, i + 1, Len(q))

\* the lookup in flight for lookupQ[i] is answered; processArxivUrl continues
LookupResponse(i, outcome) ==
    LET metadata == fetchArxivMetadata(lookupQ[i], outcome)
    IN /\ i \in 1..Len(lookupQ)
       /\ lookupQ' = RemoveAt(lookupQ, i)
       /\ loadingNotices' = loadingNotices - 1
       /\ fetched' = metadata
       /\ lookupOutcome' = <<outcome>>
       /\ IF fetchArxivMetadataThrows(outcome)
          THEN /\ notices' = notices \cup {"Failed to fetch paper metadata."}
               /\ UNCHANGED noteCalls
          ELSE IF metadata = <<>>
          THEN /\ notices' = notices \cup {"Could not find metadata for the arXiv paper."}
               /\ UNCHANGED noteCalls
          ELSE /\ createNoteFromMetadata(metadata[1])
               /\ UNCHANGED notices
       /\ UNCHANGED <<cmd, clipboard, maxRetries, pure, noteVars, enters, modal, searches, lookups, choiceLog, idInput,
                      rankerRan, chosen, cancelled, lateResponse>>

\* ------------------------------------------------------------ specification
Next ==
    \/ ShowImportModal
    \/ \E text \in UserTexts : CreateNoteFromClipboard(text)
    \/ OnOpenTimer
    \/ AutoSearchTimer
    \/ \E text \in UserTexts : TypeInput(text)
    \/ KeyupEnter
    \/ ManualRefreshTimer
    \/ \E k \in 1..Len(modal.suggestions) : ChooseSuggestion(k)
    \/ OnCancel
    \/ \E i \in 1..Len(searches) : \E response \in SearchResponses : SearchResponseOk(i, response)
    \/ \E i \in 1..Len(searches) : \E kind \in ErrorKinds : SearchResponseError(i, kind)
    \/ \E i \in 1..Len(searches) : BackoffElapsed(i)
    \/ \E i \in 1..Len(lookupQ) : \E outcome \in LookupOutcomes : LookupResponse(i, outcome)

Spec == Init /\ [][Next]_vars

\* ------------------------------------------------- the functions on their own
\* sanitizeTitle, extractArxivId and getSuggestions applied to arguments drawn
\* from bounded sets, outside any interaction.
MaxLen == 3
MaxChoices == 3

Texts(alphabet, n) == UNION {[1..k -> alphabet] : k \in 0..n}

flowVars ==
    <<cmd, clipboard, maxRetries, modal, searches, cbVars, idInput, rankerRan, histVars, enters>>

\* titles: letters of both cases, the four replaced characters, two kinds of
\* white space
TitleAlphabet == {"A", "b", "-", ":", ",", ".", " ", "\t"}
TitleInputs == Texts(TitleAlphabet, MaxLen)

\* texts around one written reference arxiv.org/<segment>/<lead><dot><tail><version>
Befores == {<<>>, <<"s", "e", "e", " ">>, <<"https://">>}
Segments == PathSegments \cup {"x"}
Leads == {<<"1", "7", "0">>, <<"1", "7", "0", "6">>, <<"1", "7", "0", "6", "1">>}
Dots == {<<>>, <<".">>}
Tails == {<<"0", "3", "7">>, <<"0", "3", "7", "6">>, <<"0", "3", "7", "6", "2">>,
          <<"0", "3", "7", "6", "2", "9">>}
Versions == {<<>>, <<"v", "3">>, <<"v", "1", "2">>}
SecondReference == <<" ", "arxiv.org/", "pdf", "/">> \o Id2001 \o <<"v", "2">>
Afters == {<<>>, <<"/", "x", " ">>, SecondReference}

WrittenText(before, segment, lead, dot, tail, version, after) ==
    before \o <<"arxiv.org/", segment, "/">> \o lead \o dot \o tail \o version \o after

\* the identifier the text was written with: that of the first reference when
\* it is complete, else that of the second reference, else none
WrittenId(segment, lead, dot, tail, after) ==
    IF segment \in {"abs", "pdf", "html"} /\ Len(lead) = 4 /\ dot = <<".">> /\ Len(tail) >= 4
    THEN lead \o <<".">> \o SubSeq(tail, 1, Min(Len(tail), 5))
    ELSE IF after = SecondReference THEN Id2001
    ELSE <<>>

UrlInputs ==
    { [PureIdle EXCEPT !.fn = "extractArxivId",
                       !.text = WrittenText(before, segment, lead, dot, tail, version, after),
                       !.known = WrittenId(segment, lead, dot, tail, after)] :
        before \in Befores, segment \in Segments, lead \in Leads, dot \in Dots,
        tail \in Tails, version \in Versions, after \in Afters }

\* candidates: scores 1, 1/2, 1/2, 3/10 and 0 against the query "ab cd"
PaperAbxyTwin == Paper(PaperAbxy.title, <<"2", "0", "0", "4", ".", "0", "0", "0", "0", "4">>)
PaperAtThreshold ==
    Paper(<<"a", "b", " ", "c">> \o [k \in 1..13 |-> "q"],
          <<"2", "0", "0", "5", ".", "0", "0", "0", "0", "5">>)
CandidatePool == {PaperAbcd, PaperAbxy, PaperAbxyTwin, PaperAtThreshold, PaperXyz}
RankQueries == {TitleQuery, OtherQuery, <<>>}

RankInputs ==
    { [PureIdle EXCEPT !.fn = "getSuggestions", !.text = query, !.choices = choices] :
        query \in RankQueries, choices \in Texts(CandidatePool, MaxChoices) }

PureInputs ==
    {[PureIdle EXCEPT !.fn = "sanitizeTitle", !.text = title] : title \in TitleInputs}
        \cup UrlInputs \cup RankInputs

InitPure ==
    /\ cmd = "none"
    /\ clipboard = <<>>
    /\ maxRetries = DefaultMaxRetries
    /\ modal = NewModal
    /\ searches = <<>>
    /\ lookupQ = <<>>
    /\ lookups = 0
    /\ notices = {}
    /\ loadingNotices = 0
    /\ noteCalls = <<>>
    /\ choiceLog = <<>>
    /\ idInput = FALSE
    /\ rankerRan = FALSE
    /\ chosen = <<>>
    /\ fetched = <<>>
    /\ cancelled = FALSE
    /\ lateResponse = FALSE
    /\ lookupOutcome = <<>>
    /\ enters = {}
    /\ note = NoteIdle
    /\ vault = VaultEmpty
    /\ dialog = DialogNone
    /\ settings = DefaultSettings
    /\ pure \in PureInputs

\* sanitizeTitle applied to the text, then to its own result
ApplySanitizeTitle ==
    /\ pure.fn = "sanitizeTitle"
    /\ Len(pure.outs) < 2
    /\ pure' = [pure EXCEPT
           !.outs = Append(@, sanitizeTitle(IF @ = <<>> THEN pure.text ELSE @[Len(@)])),
           !.done = TRUE]
    /\ UNCHANGED <<flowVars, noteVars>>

ApplyExtractArxivId ==
    /\ pure.fn = "extractArxivId"
    /\ ~pure.done
    /\ pure' = [pure EXCEPT !.outs = <<extractArxivId(pure.text)>>, !.done = TRUE]
    /\ UNCHANGED <<flowVars, noteVars>>

\* getSuggestions(query) of a modal whose search has completed with the choices
ApplyGetSuggestions ==
    /\ pure.fn = "getSuggestions"
    /\ ~pure.done
    /\ pure' = [pure EXCEPT
           !.ranked = getSuggestions(setSearchResults(NewModal, pure.choices), pure.text),
           !.done = TRUE]
    /\ UNCHANGED <<flowVars, noteVars>>

NextPure ==
    \/ ApplySanitizeTitle
    \/ ApplyExtractArxivId
    \/ ApplyGetSuggestions

SpecPure == InitPure /\ [][NextPure]_vars

\* ------------------------------------------------- createNoteFromMetadata
\* createNoteFromMetadata on its own: entered with a record the plugin can
\* produce, under settings and vault contents drawn at the start.  The vault
\* is touched by nobody else while it runs.

\* sanitizeFileName: ":" becomes " - ", the characters \ / : * ? " < > | go,
\* runs of two or more white spaces become one space, then trim
ForbiddenInNames == {"\\", "/", ":", "*", "?", "\"", "<", ">", "|"}

ColonToDash(c) == IF c = ":" THEN <<" ", "-", " ">> ELSE <<c>>

RECURSIVE CollapseRuns(_)
CollapseRuns(t) ==
    IF t = <<>> THEN <<>>
    ELSE IF Len(t) >= 2 /\ t[1] \in Whitespace /\ t[2] \in Whitespace
         THEN <<" ">> \o CollapseRuns(TrimLeft(t))
         ELSE <<Head(t)>> \o CollapseRuns(Tail(t))

sanitizeFileName(title) ==
    Trim(CollapseRuns(SelectSeq(Flatten([i \in 1..Len(title) |-> ColonToDash(title[i])]),
                                LAMBDA c : c \notin ForbiddenInNames)))

NoteFilename(metadata) == sanitizeFileName(metadata.title) \o <<".md">>
PdfFilename(metadata) == sanitizeFileName(metadata.title) \o <<".pdf">>

\* settings.pdfFolder?.trim() ? trim().replace(/\/$/, "") + "/" : ""
StripSlash(t) == IF t # <<>> /\ t[Len(t)] = "/" THEN SubSeq(t, 1, Len(t) - 1) ELSE t
PdfFolderPath(s) ==
    IF Trim(s.pdfFolder) # <<>> THEN StripSlash(Trim(s.pdfFolder)) \o <<"/">> ELSE <<>>

\* metadata.url.includes('arxiv.org')
IncludesArxivOrg(url) == "arxiv.org/" \in Range(url)

\* line 584
ShouldDownloadPdf(s, metadata) == s.templateHasPdf /\ IncludesArxivOrg(metadata.url)

\* formatNoteContent: what the placeholders of the template are replaced by;
\* {{PDF}} is replaced only where the template holds it
formatNoteContent(s, metadata, pdfFilename) ==
    [title |-> sanitizeFileName(metadata.title), url |-> metadata.url, year |-> metadata.year,
     authors |-> metadata.authors, pdf |-> IF s.templateHasPdf THEN <<pdfFilename>> ELSE <<>>]

\* the content of a note that was there before
OldContent ==
    [title |-> <<"o", "l", "d">>, url |-> <<>>, year |-> 0, authors |-> <<>>, pdf |-> <<>>]

\* records the plugin can hand to createNoteFromMetadata
PaperColon == Paper(<<"a", ":", " ", " ", "b", "?">>, Id2001)
NoteRecords == {PaperAbcd, PaperColon, ParseSearchEntry(EntryOldId)}

SettingsChoices ==
    [pdfFolder : {<<>>, <<"P", "D", "F", "/">>}, templateHasPdf : BOOLEAN]

\* vaults at the start: a note can be on disk with or without a file object
\* for it; a PDF can only be there when its folder is
VaultChoices(s) ==
    { [noteOnDisk |-> onDisk, noteIsTFile |-> isTFile,
       noteContent |-> IF onDisk THEN <<OldContent>> ELSE <<>>,
       pdfFolderExists |-> folder, pdfContent |-> pdf, pdfAtStart |-> pdf,
       pdfRequests |-> 0] :
        onDisk \in BOOLEAN, isTFile \in BOOLEAN, folder \in BOOLEAN, pdf \in {"none", "old"} }
      \cap { v \in [noteOnDisk : BOOLEAN, noteIsTFile : BOOLEAN,
                    noteContent : {<<>>, <<OldContent>>}, pdfFolderExists : BOOLEAN,
                    pdfContent : {"none", "old"}, pdfAtStart : {"none", "old"},
                    pdfRequests : {0}] :
               /\ v.noteIsTFile => v.noteOnDisk
               /\ (v.pdfContent = "old" /\ PdfFolderPath(s) # <<>>) => v.pdfFolderExists }

InitNote ==
    /\ cmd = "none"
    /\ clipboard = <<>>
    /\ maxRetries = DefaultMaxRetries
    /\ modal = NewModal
    /\ searches = <<>>
    /\ lookupQ = <<>>
    /\ lookups = 0
    /\ notices = {}
    /\ loadingNotices = 0
    /\ noteCalls = <<>>
    /\ choiceLog = <<>>
    /\ idInput = FALSE
    /\ rankerRan = FALSE
    /\ chosen = <<>>
    /\ fetched = <<>>
    /\ cancelled = FALSE
    /\ lateResponse = FALSE
    /\ lookupOutcome = <<>>
    /\ enters = {}
    /\ pure = PureIdle
    /\ dialog = DialogNone
    /\ settings \in SettingsChoices
    /\ vault \in VaultChoices(settings)
    /\ \E metadata \in NoteRecords :
           note = [NoteIdle EXCEPT !.pc = "start", !.metadata = <<metadata>>]

NoteFrame == UNCHANGED <<flowVars, pure, settings>>

\* lines 574-581: the path is looked up; when it exists, confirmOverwrite
\* opens the ConfirmOverwriteModal
CheckExists ==
    /\ note.pc = "start"
    /\ IF vault.noteOnDisk
       THEN /\ note' = [note EXCEPT !.pc = "confirm", !.fileExists = TRUE]
            /\ dialog' = [dialog EXCEPT !.state = "open"]
       ELSE /\ note' = [note EXCEPT !.pc = "pdf", !.fileExists = FALSE]
            /\ UNCHANGED dialog
    /\ UNCHANGED vault
    /\ NoteFrame

\* a flow that goes on whatever the answer
ProceedAlways(overwrite) == TRUE

\* line 581: if (fileExists && !(await this.confirmOverwrite())) return
ProceedAfterConfirm(overwrite) == overwrite

\* a button of the dialog: close(), then onDecision(overwrite) resolves the
\* promise and createNoteFromMetadata continues
ClickButton(overwrite) ==
    /\ dialog.state = "open"
    /\ dialog' = [state |-> "closed", resolved |-> dialog.resolved + 1, decision |-> overwrite]
    /\ note' = [note EXCEPT !.pc = IF ProceedAfterConfirm(overwrite) THEN "pdf" ELSE "done"]
    /\ UNCHANGED vault
    /\ NoteFrame

\* the dialog is dismissed (Escape, a click outside): Modal.close() runs
\* onClose, which empties contentEl (lines 934-936)
DismissDialog ==
    /\ dialog.state = "open"
    /\ dialog' = [dialog EXCEPT !.state = "closed"]
    /\ UNCHANGED <<note, vault>>
    /\ NoteFrame

PdfFailedNotice(kind) ==
    CASE kind = "invalidId" -> "PDF download failed: Could not extract arXiv ID from URL"
      [] kind = "noFolder" -> "PDF download failed: PDF folder doesn't exist. Please create it first."
      [] kind = "request" -> "PDF download failed: Failed to download PDF: request"
      [] kind = "write" -> "PDF download failed: Failed to download PDF: write"

\* a failure that ends createNoteFromMetadata
PdfFailedFatal(n, kind) ==
    [n EXCEPT !.pc = "done", !.pdfFilename = <<>>, !.pdfFailed = kind,
              !.notices = @ \cup {PdfFailedNotice(kind)}]

\* the catch of lines 587-590 after downloadPdf threw
PdfFailed(n, kind) ==
    [n EXCEPT !.pc = "write", !.pdfFilename = <<>>, !.pdfFailed = kind,
              !.notices = @ \cup {PdfFailedNotice(kind)}]

\* lines 583-591 and downloadPdf up to its request (lines 617-641)
DownloadPdfStart ==
    LET metadata == note.metadata[1]
        called == [note EXCEPT !.downloadPdfCalls = @ + 1]
    IN /\ note.pc = "pdf"
       /\ IF ~ShouldDownloadPdf(settings, metadata)
          THEN /\ note' = [note EXCEPT !.pc = "write"]
               /\ UNCHANGED vault
          ELSE IF extractArxivId(metadata.url) = <<>>
          THEN /\ note' = PdfFailed(called, "invalidId")
               /\ UNCHANGED vault
          ELSE IF PdfFolderPath(settings) # <<>> /\ ~vault.pdfFolderExists
          THEN /\ note' = PdfFailed(called, "noFolder")
               /\ UNCHANGED vault
          ELSE IF vault.pdfContent # "none"
          THEN /\ note' = [called EXCEPT !.pc = "write", !.pdfFilename = PdfFilename(metadata)]
               /\ UNCHANGED vault
          ELSE /\ note' = [called EXCEPT !.pc = "pdfRequest",
                                         !.notices = @ \cup {"Downloading PDF"}]
               /\ vault' = [vault EXCEPT !.pdfRequests = @ + 1]
       /\ UNCHANGED dialog
       /\ NoteFrame

PdfOutcomes == {"ok", "requestError", "noArrayBuffer", "writeError"}

\* the request of downloadPdf is answered and writeBinary ends (lines 641-656)
PdfResponse(outcome) ==
    LET metadata == note.metadata[1]
    IN /\ note.pc = "pdfRequest"
       /\ IF outcome = "ok"
          THEN /\ vault' = [vault EXCEPT !.pdfContent = "new"]
               /\ note' = [note EXCEPT !.pc = "write", !.pdfFilename = PdfFilename(metadata)]
          ELSE /\ note' = PdfFailed([note EXCEPT !.notices = @ \cup {"Failed to download PDF"}],
                                    IF outcome = "writeError" THEN "write" ELSE "request")
               /\ UNCHANGED vault
       /\ UNCHANGED dialog
       /\ NoteFrame

WriteOutcomes == {"ok", "throws"}

\* lines 593-613: vault.modify of the file object or vault.create, the notice
WriteNote(outcome) ==
    LET content == formatNoteContent(settings, note.metadata[1], note.pdfFilename)
        writes == ~note.fileExists \/ vault.noteIsTFile
    IN /\ note.pc = "write"
       /\ IF writes /\ outcome = "throws"
          THEN /\ note' = [note EXCEPT !.pc = "done",
                                       !.notices = @ \cup {"Error creating note"}]
               /\ UNCHANGED vault
          ELSE /\ outcome = "ok"
               /\ note' = [note EXCEPT !.pc = "done",
                                       !.written = IF writes THEN <<content>> ELSE <<>>,
                                       !.notices = @ \cup {"Created paper note"}]
               /\ vault' = IF writes
                           THEN [vault EXCEPT !.noteOnDisk = TRUE, !.noteIsTFile = TRUE,
                                              !.noteContent = <<content>>]
                           ELSE vault
       /\ UNCHANGED dialog
       /\ NoteFrame

NextNote ==
    \/ CheckExists
    \/ \E overwrite \in BOOLEAN : ClickButton(overwrite)
    \/ DismissDialog
    \/ DownloadPdfStart
    \/ \E outcome \in PdfOutcomes : PdfResponse(outcome)
    \/ \E outcome \in WriteOutcomes : WriteNote(outcome)

SpecNote == InitNote /\ [][NextNote]_vars

\* ------------------------------------------------------------------ claims
SearchIds == 1..Len(searches)
Delivered == Range(choiceLog)

\* every failure of this search so far was classified as a network error and
\* the search has thrown
ExhaustedByNetworkErrors(s) ==
    s.pc = "thrown" /\ isNetworkError(s.thrown[1].msg)

\* C1: whenever a committed input (clipboard text, or the modal's input in
\* performSearch) holds an identifier, exactly one lookup-by-identifier
\* request has been issued, no title search was started and the ranker never
\* got past its guard.
C1_IdentifierFastPath ==
    idInput => (lookups = 1 /\ searches = <<>> /\ ~rankerRan)

C1_Witness ==
    idInput /\ cmd = "import" /\ lookupQ = <<>> /\ noteCalls # <<>>

\* C2: a search never issues more than maxRetries requests, and one that
\* threw an error classified as a network error issued exactly maxRetries
\* requests and threw the error of the last of them.
C2_RetryBound ==
    \A i \in SearchIds :
        /\ searches[i].requests <= searches[i].maxRetries
        /\ ExhaustedByNetworkErrors(searches[i]) =>
               /\ searches[i].requests = searches[i].maxRetries
               /\ searches[i].thrown[1].req = searches[i].maxRetries

C2_Witness ==
    \E i \in SearchIds :
        ExhaustedByNetworkErrors(searches[i]) /\ searches[i].maxRetries = DefaultMaxRetries

\* C3 (as amended): the k-th delay taken is 2^(k-1) seconds, one delay after
\* each failed attempt but the last, so at most maxRetries - 1 delays; with
\* maxRetries = 3 and a network failure on every attempt they are 1 s and 2 s.
C3_BackoffSchedule ==
    \A i \in SearchIds :
        /\ \A k \in 1..Len(searches[i].delays) : searches[i].delays[k] = Pow2(k - 1) * 1000
        /\ Len(searches[i].delays) =
               IF searches[i].pc = "delay" THEN searches[i].attempt ELSE searches[i].attempt - 1
        /\ Len(searches[i].delays) <= searches[i].maxRetries - 1
        /\ (ExhaustedByNetworkErrors(searches[i]) /\ searches[i].maxRetries = 3) =>
               searches[i].delays = <<1000, 2000>>

C3_Witness ==
    \E i \in SearchIds :
        /\ ExhaustedByNetworkErrors(searches[i])
        /\ searches[i].maxRetries = 3
        /\ searches[i].delays = <<1000, 2000>>

\* C3 (as stated): with maxRetries = 3 and a network failure on every attempt
\* the delays taken are 1 s, 2 s and 4 s.
C3_Original ==
    \A i \in SearchIds :
        (ExhaustedByNetworkErrors(searches[i]) /\ searches[i].maxRetries = 3) =>
            searches[i].delays = <<1000, 2000, 4000>>

\* C4: an attempt that failed with an error that is not a transport-level
\* failure is not retried: the search has thrown that very error and issued
\* no request after the failed one.
C4_NonNetworkNeverRetried ==
    \A i \in SearchIds :
        (searches[i].lastError # <<>> /\ ~searches[i].lastError[1].transport) =>
            /\ searches[i].pc = "thrown"
            /\ searches[i].thrown = searches[i].lastError
            /\ searches[i].requests = searches[i].lastError[1].req

\* C5: once searchArxivByTitle has thrown, the status text is the
\* search-failed message (not "No results found"), loading is false, no
\* candidate is stored and the note writer has not been invoked.
C5_SearchUnavailable ==
    \A i \in SearchIds :
        searches[i].pc = "thrown" =>
            /\ modal.emptyStateText = SearchFailedText
            /\ modal.emptyStateText # NoResultsText
            /\ ~modal.loading
            /\ modal.choices = <<>>
            /\ noteCalls = <<>>

C5_Witness ==
    \E i \in SearchIds :
        /\ searches[i].pc = "thrown"
        /\ searches[i].requests = DefaultMaxRetries
        /\ ~modal.refreshPending
        /\ modal.state = "open"

\* C6: at no time are two calls of searchArxivByTitle pending.
C6_OneSearchInFlight ==
    Cardinality({i \in SearchIds : InFlight(searches[i])}) <= 1

C6_Witness ==
    \E i \in SearchIds :
        searches[i].pc = "delay" /\ modal.state = "open" /\ modal.keyupListener

\* C7: loading implies the input is disabled, a pending search (waiting for
\* its answer or in a backoff delay) implies both, and when every started
\* search has returned or thrown the input is enabled and loading is false.
C7_InputDisabledWhileSearching ==
    /\ modal.loading => modal.inputDisabled
    /\ \A i \in SearchIds : InFlight(searches[i]) => (modal.loading /\ modal.inputDisabled)
    /\ (searches # <<>> /\ \A i \in SearchIds : ~InFlight(searches[i])) =>
           (~modal.inputDisabled /\ ~modal.loading)

C7_Witness ==
    \E i \in SearchIds :
        /\ searches[i].pc = "delay"
        /\ Len(searches[i].delays) = 2
        /\ modal.loading
        /\ modal.inputDisabled

\* C8: no step that is, or follows, onCancel invokes createNoteFromMetadata.
C8_NoNoteAfterCancel ==
    [][(cancelled \/ cancelled') => noteCalls' = noteCalls]_vars

C8_Witness ==
    cancelled /\ lateResponse /\ modal.choices # <<>> /\ ~modal.refreshPending

\* C9: whenever onChoice has received null, a cancellation notice has been
\* shown.
C9_CancelNotice ==
    NullChoice \in Delivered => "Cancelled." \in notices

\* C10: createNoteFromMetadata is invoked at most once; after a selection its
\* argument is the displayed candidate the user picked, one of the stored
\* candidates; otherwise it is the record fetchArxivMetadata returned; and
\* onChoice never receives both null and a choice.
C10_ExactlyOneRecord ==
    /\ Len(noteCalls) <= 1
    /\ chosen # <<>> => (noteCalls = chosen /\ chosen[1] \in Range(modal.choices))
    /\ (chosen = <<>> /\ noteCalls # <<>>) => (fetched = noteCalls /\ idInput)
    /\ ~(NullChoice \in Delivered /\ \E c \in Delivered : ~c.isNull)

C10_Witness ==
    /\ chosen # <<>>
    /\ Len(modal.suggestions) >= 2
    /\ chosen[1] # modal.suggestions[1]
    /\ noteCalls = chosen

\* a text of the shape 4 digits, dot, 4 or 5 digits
IsIdentifier(t) ==
    /\ Len(t) \in {9, 10}
    /\ IsDigits(t, 1, 4)
    /\ t[5] = "."
    /\ IsDigits(t, 6, Len(t))

HasCanonicalUrl(paper) ==
    /\ Len(paper.url) > Len(CanonicalBase)
    /\ SubSeq(paper.url, 1, Len(CanonicalBase)) = CanonicalBase
    /\ IsIdentifier(SubSeq(paper.url, Len(CanonicalBase) + 1, Len(paper.url)))

\* the records searchArxivByTitle and fetchArxivMetadata have produced
ProducedRecords == Range(modal.choices) \cup Range(fetched)

\* C11: every record produced by fetchArxivMetadata or searchArxivByTitle has
\* a url made of the canonical base followed by a non-empty identifier of the
\* shape 4 digits, dot, 4-5 digits, whatever the id field of the entry holds.
C11_CanonicalUrl == \A paper \in ProducedRecords : HasCanonicalUrl(paper)

\* the identifier each identifier-bearing input text was written with
IdTexts == {IdUrl, EmbeddedUrl, Trim(EmbeddedUrl), HtmlUrl}
WrittenIdentifier(input) == IF input = HtmlUrl THEN Id2001 ELSE Id1706

\* the identifier-bearing texts handed to processArxivUrl so far
CommittedIdTexts == ({clipboard} \cup {c.input : c \in Delivered}) \cap IdTexts

\* C12: on the fast path the record fetchArxivMetadata returns has the url
\* made of the canonical base and the identifier of the input text, without
\* its version suffix, whatever id the entry of the response carries.
C12_UrlFromInput ==
    fetched # <<>> =>
        /\ CommittedIdTexts # {}
        /\ \A input \in CommittedIdTexts :
               fetched[1].url = CanonicalBase \o WrittenIdentifier(input)

\* an input with a version suffix, answered by an entry of another identifier
C12_Witness ==
    /\ fetched # <<>>
    /\ CommittedIdTexts \cap {EmbeddedUrl, Trim(EmbeddedUrl), HtmlUrl} # {}
    /\ \E input \in CommittedIdTexts :
           EntryId(lookupOutcome[1].response.entries[1].id) # WrittenIdentifier(input)
    /\ noteCalls = fetched

\* an entry whose published element is missing or holds no date
Dateless(entry) == entry.published \in {EntryNoDate.published, EntryBadDate.published}

\* C13: an entry whose published date is missing or unparseable yields a
\* record all the same, and the record's year is 0, in searchArxivByTitle and
\* in fetchArxivMetadata.
C13_DatelessYearZero ==
    /\ \A i \in SearchIds :
           searches[i].response # <<>> =>
               LET entries == DocumentEntries(searches[i].response[1])
               IN /\ Len(searches[i].results) = Len(entries)
                  /\ \A k \in 1..Len(entries) :
                         Dateless(entries[k]) => searches[i].results[k].year = 0
    /\ \A outcome \in Range(lookupOutcome) :
           LET entries == DocumentEntries(outcome.response)
           IN (outcome.kind = "response" /\ entries # <<>> /\ Dateless(entries[1]))
                  => (fetched # <<>> /\ fetched[1].year = 0)

\* C14: when the remote call of fetchArxivMetadata errors, processArxivUrl
\* shows the fetch-failed notice and not the not-found notice; when the
\* request succeeded and the response holds no entry, it shows the not-found
\* notice and not the fetch-failed notice.
C14_FailureIsNotAbsence ==
    \A outcome \in Range(lookupOutcome) :
        /\ outcome.kind = "error" =>
               /\ "Failed to fetch paper metadata." \in notices
               /\ "Could not find metadata for the arXiv paper." \notin notices
        /\ (outcome.kind = "response" /\ outcome.response = Feed(<<>>)) =>
               /\ "Could not find metadata for the arXiv paper." \in notices
               /\ "Failed to fetch paper metadata." \notin notices

\* C15: the modal shows the "No results found" text only when the request of
\* the last search succeeded and its response was a well-formed feed with
\* zero entries; never for a response that is no such document, never for a
\* failed request.
C15_NotFoundIsDistinct ==
    modal.emptyStateText = NoResultsText =>
        /\ searches # <<>>
        /\ searches[Len(searches)].response = <<Feed(<<>>)>>

\* the last search returned a list and the ranked list for the current
\* filter text is empty
EmptyAfterSuccess ==
    /\ searches # <<>>
    /\ searches[Len(searches)].pc = "returned"
    /\ getSuggestions(modal, modal.inputValue) = <<>>

NoneClears(choices, query) ==
    \A k \in 1..Len(choices) : ~AboveThreshold(choices[k], sanitizeTitle(query))

\* C16: after a successful search with an empty ranked list, the status text
\* is "No results found" exactly when the server returned zero candidates,
\* and "No matching results" exactly when candidates exist and none clears
\* the threshold for the current filter text.
C16_EmptyListCauses ==
    EmptyAfterSuccess =>
        LET last == searches[Len(searches)]
        IN /\ modal.choices = last.results
           /\ modal.emptyStateText = NoResultsText
                  <=> DocumentEntries(last.response[1]) = <<>>
           /\ modal.emptyStateText = NoMatchingText
                  <=> (last.results # <<>> /\ NoneClears(last.results, modal.inputValue))

\* candidates are stored, the list shown for the filter text is empty
C16_Witness ==
    /\ EmptyAfterSuccess
    /\ modal.state = "open"
    /\ ~modal.refreshPending
    /\ modal.choices # <<>>
    /\ modal.suggestions = <<>>
    /\ modal.emptyStateText = NoMatchingText

Replaced == {"-", ":", ",", "."}
UpperCase == {"A", "B", "X"}
Spaces == {" ", "\t"}

\* what the output of the normalization may look like
Normalized(t) ==
    /\ Range(t) \cap (Replaced \cup UpperCase) = {}
    /\ t # <<>> => (t[1] \notin Spaces /\ t[Len(t)] \notin Spaces)
    /\ \A k \in 1..(Len(t) - 1) : ~(t[k] \in Spaces /\ t[k + 1] \in Spaces)

\* C17: sanitizeTitle(sanitizeTitle(x)) = sanitizeTitle(x) for every text x,
\* and sanitizeTitle(x) holds no hyphen, colon, comma, period or upper-case
\* letter, no leading or trailing space, no two consecutive white spaces.
C17_SanitizeIdempotent ==
    pure.fn = "sanitizeTitle" =>
        /\ Len(pure.outs) >= 1 => Normalized(pure.outs[1])
        /\ Len(pure.outs) = 2 => pure.outs[2] = pure.outs[1]

\* a title with an upper-case letter and a replaced character inside
C17_Witness ==
    /\ pure.fn = "sanitizeTitle"
    /\ Len(pure.outs) = 2
    /\ "A" \in Range(pure.text)
    /\ Range(pure.text) \cap Replaced # {}
    /\ Len(pure.outs[1]) = 3
    /\ pure.outs[1] # pure.text

\* C18: for a text holding arxiv.org/(abs|pdf|html)/ followed by 4 digits, a
\* dot and 4-5 digits, extractArxivId returns the identifier of the first such
\* occurrence, without a version suffix, whatever text surrounds it; for a
\* text with no such occurrence it returns none.
C18_FirstIdentifierNoVersion ==
    (pure.fn = "extractArxivId" /\ pure.done) => pure.outs = <<pure.known>>

\* text before the reference, a version suffix after it, and a second
\* reference with another identifier further on
C18_Witness ==
    /\ pure.fn = "extractArxivId"
    /\ pure.done
    /\ pure.text[1] # "arxiv.org/"
    /\ pure.known = Id1706
    /\ \E k \in 1..(Len(pure.text) - 1) : pure.text[k] = "2" /\ pure.text[k + 1] = "v"
    /\ Cardinality(MatchPositions(pure.text)) = 2
    /\ pure.outs = <<Id1706>>

\* the score of a candidate against the normalized query, as a fraction
Score(choice, query) == compareTwoStrings(sanitizeTitle(choice.title), sanitizeTitle(query))

FracEqual(a, b) == a[1] * b[2] = b[1] * a[2]

\* the elements of the list whose score equals that of c, in list order
TieGroup(list, c, query) ==
    SelectSeq(list, LAMBDA d : FracEqual(Score(d, query), Score(c, query)))

\* C19: the list getSuggestions returns is ordered by descending score
\* against the normalized query, and candidates of equal score keep the
\* relative order they have in the stored list.
C19_DescendingStable ==
    (pure.fn = "getSuggestions" /\ pure.done) =>
        /\ \A k \in 1..(Len(pure.ranked) - 1) :
               ~FracGreater(Score(pure.ranked[k + 1], pure.text), Score(pure.ranked[k], pure.text))
        /\ \A k \in 1..Len(pure.ranked) :
               TieGroup(pure.ranked, pure.ranked[k], pure.text)
                   = TieGroup(pure.choices, pure.ranked[k], pure.text)

\* the best candidate was stored last, two others tie
C19_Witness ==
    /\ pure.fn = "getSuggestions"
    /\ pure.done
    /\ Len(pure.ranked) = 3
    /\ pure.ranked[1] = pure.choices[3]
    /\ pure.ranked[2] = pure.choices[1]
    /\ pure.ranked[2] # pure.ranked[3]
    /\ FracEqual(Score(pure.ranked[2], pure.text), Score(pure.ranked[3], pure.text))
    /\ FracGreater(Score(pure.ranked[1], pure.text), Score(pure.ranked[2], pure.text))

\* how often c occurs in the list
Occurrences(list, c) == Cardinality({k \in 1..Len(list) : list[k] = c})

\* C20: once a search has completed, getSuggestions returns exactly the
\* stored candidates whose score against the normalized query is strictly
\* above 0.3: none at or below it, none above it dropped, none duplicated.
C20_ThresholdFilter ==
    (pure.fn = "getSuggestions" /\ pure.done) =>
        \A c \in Range(pure.choices) \cup Range(pure.ranked) :
            Occurrences(pure.ranked, c) =
                IF FracGreater(Score(c, pure.text), <<3, 10>>)
                THEN Occurrences(pure.choices, c)
                ELSE 0

\* a candidate scoring exactly 0.3 is left out, another is kept
C20_Witness ==
    /\ pure.fn = "getSuggestions"
    /\ pure.done
    /\ \E c \in Range(pure.choices) :
           FracEqual(Score(c, pure.text), <<3, 10>>) /\ c \notin Range(pure.ranked)
    /\ \E c \in Range(pure.choices) :
           ~FracGreater(Score(c, pure.text), <<3, 10>>) /\ Score(c, pure.text)[1] = 0
    /\ pure.ranked # <<>>

\* a step in which the modal's input event runs getSuggestions: the user
\* typed the text the input now holds, or the refresh timer fired
FilterStep ==
    \/ /\ modal'.inputValue # modal.inputValue
       /\ modal'.inputValue \in UserTexts
       /\ TypeInput(modal'.inputValue)
    \/ /\ modal.refreshPending
       /\ ~modal'.refreshPending
       /\ ManualRefreshTimer

\* C21: a filter keystroke (a getSuggestions call) issues no request and
\* leaves the stored candidate list as it is, in content and in order.
C21_LocalRerank ==
    [][FilterStep =>
          /\ searches' = searches
          /\ lookupQ' = lookupQ
          /\ lookups' = lookups
          /\ modal'.choices = modal.choices]_vars

\* fetched candidates re-ranked for a filter text typed after the search
C21_Witness ==
    /\ RankerReached(modal)
    /\ ~modal.refreshPending
    /\ Len(modal.choices) = 3
    /\ Len(modal.suggestions) = 2
    /\ modal.suggestions[1] = modal.choices[3]
    /\ searches[1].query # sanitizeTitle(modal.inputValue)
    /\ searches[1].requests = 1

PdfFailureKinds == {"invalidId", "noFolder", "request", "write"}

\* the write of the note went through: vault.create or vault.modify returned
NoteWriteCompleted ==
    /\ note.pc = "done"
    /\ "Error creating note" \notin note.notices
    /\ (~note.fileExists \/ vault.noteIsTFile)

C23_AtMostPageSize ==
    \A i \in SearchIds : Len(searches[i].results) <= PageSize

\* C24: no title search is started before the user has committed the query
\* with Enter: not by opening the modal, not by the clipboard pre-fill, not by
\* typing.
C24_NoSearchWithoutSubmit == searches # <<>> => enters # {}

\* C25: while loading is true or no search has been started, getSuggestions
\* returns the empty list and none is shown; loading implies hasSearched; a
\* non-empty suggestion list is shown only after a search has returned
\* candidates, and it is made of them.
C25_LoadingExcludesResults ==
    /\ (modal.loading \/ ~modal.hasSearched) =>
           /\ \A query \in UserTexts : getSuggestions(modal, query) = <<>>
           /\ modal.suggestions = <<>>
    /\ modal.loading => modal.hasSearched
    /\ modal.suggestions # <<>> =>
           \E i \in SearchIds :
               /\ searches[i].pc = "returned"
               /\ Range(modal.suggestions) \subseteq Range(searches[i].results)

\* the refresh has run while the search is waiting between two attempts
C25_Witness ==
    /\ modal.loading
    /\ modal.hasSearched
    /\ ~modal.refreshPending
    /\ modal.state = "open"
    /\ modal.suggestions = <<>>
    /\ \E i \in SearchIds : searches[i].pc = "delay"

\* the note path existed and the user has not chosen Overwrite
NotConfirmed == note.fileExists /\ ~dialog.decision

\* C26: when the note path exists and the user does not confirm the
\* overwrite, createNoteFromMetadata changes nothing: the existing note keeps
\* its content, nothing is written, downloadPdf is not called, no PDF is
\* requested or written, no "Created" notice is shown; an existing note is
\* modified only after the user chose Overwrite.
C26_OverwriteGuard ==
    /\ NotConfirmed =>
           /\ vault.noteContent = <<OldContent>>
           /\ note.written = <<>>
           /\ note.downloadPdfCalls = 0
           /\ vault.pdfRequests = 0
           /\ vault.pdfContent # "new"
           /\ "Created paper note" \notin note.notices
    /\ (note.fileExists /\ vault.noteContent # <<OldContent>>) =>
           (dialog.decision /\ dialog.resolved = 1)

\* the user pressed Cancel and the flow has ended
C26_Witness ==
    /\ NotConfirmed
    /\ dialog.state = "closed"
    /\ dialog.resolved = 1
    /\ note.pc = "done"
    /\ vault.noteIsTFile
    /\ settings.templateHasPdf
    /\ vault.pdfContent = "none"

\* C27: hasSearched, once true, stays true; a modal starts at most one title
\* search, and no step taken while hasSearched is true (an Enter after
\* results or after a failed search among them) starts another.
C27_HasSearchedMonotonic ==
    [][/\ modal.hasSearched => modal'.hasSearched
       /\ modal.hasSearched => Len(searches') = Len(searches)
       /\ Len(searches') <= 1]_vars

\* a second Enter arrived after the search had failed
C27_Witness ==
    /\ enters = {"fresh", SearchFailedText.text}
    /\ Len(searches) = 1
    /\ searches[1].pc = "thrown"
    /\ searches[1].requests = searches[1].maxRetries
    /\ modal.state = "open"
    /\ modal.hasSearched

\* C28: for every way the confirmation dialog can end (Overwrite, Cancel,
\* dismissal without a button) the promise of confirmOverwrite is resolved
\* exactly once, so createNoteFromMetadata does not stay suspended.
C28_ConfirmResolvedOnce ==
    /\ dialog.resolved <= 1
    /\ dialog.state = "closed" => (dialog.resolved = 1 /\ note.pc # "confirm")

\* C29: "Created paper note" is shown only when the content of the note was
\* written by vault.create or vault.modify; not when the path existed at the
\* check and no file object is found for it at write time.
C29_SuccessNoticeTruthful ==
    "Created paper note" \in note.notices =>
        /\ note.written # <<>>
        /\ vault.noteContent = note.written

\* C30: downloadPdf is called only when the template holds {{PDF}} and the
\* url of the record contains arxiv.org; and when a file is already at the
\* target PDF path, the call issues no request, leaves the file as it is and
\* returns its filename, which the note then embeds.
C30_ExistingPdfReused ==
    /\ note.downloadPdfCalls > 0 =>
           (settings.templateHasPdf /\ IncludesArxivOrg(note.metadata[1].url))
    /\ (vault.pdfAtStart = "old" /\ note.downloadPdfCalls > 0) =>
           /\ vault.pdfRequests = 0
           /\ vault.pdfContent = "old"
           /\ note.pdfFilename = PdfFilename(note.metadata[1])
           /\ note.written # <<>> => note.written[1].pdf = <<PdfFilename(note.metadata[1])>>

=============================================================================
